---- MODULE Spec2Model ----
(***************************************************************************)
(* Model of the Bitbucket -> GitHub migrator: the repo-file parser         *)
(* (main.go parseRepos), the per-repository pipeline (main.go migrateRepos *)
(* and migrateRepo), the destination side (createRepo, updateRepo,         *)
(* updateRepoTopics, updateCustomProperties, migrateOpenPrs,               *)
(* createClosedPrs, pushRepoToGithub) and the source side (getRepo,        *)
(* cloneRepo, updatePermissionsToReadOnly, getPrs, decodePullRequests).    *)
(*                                                                         *)
(* Strings of the repo file are sequences of one-character strings.  Both  *)
(* backends and the git transport are external: every call's outcome is a  *)
(* nondeterministic choice among the outcomes the code distinguishes.      *)
(* log.Fatalf (os.Exit) is the terminal position "fatal".                  *)
(***************************************************************************)
EXTENDS Integers, Sequences, FiniteSets, TLC

VARIABLES
    data,           \* parseRepos: content of the repo file
    cleaned_repos,  \* parseRepos: its result
    ppc,            \* parseRepos, cleanTopic: "start" | "parsed" | "clean" | "cleaned" | "idle"
    projectName,    \* cleanTopic: its argument, repo.Project.Name
    topic,          \* cleanTopic: its result
    config,         \* settings struct, frozen after main()
    repoList,       \* migrateRepos: the parsed identifier list
    repoIdx,        \* migrateRepos: index of the repository being migrated
    pc,             \* position of the single thread of control
    bbRepo,         \* migrateRepo: source repository snapshot
    userPerms,      \* updatePermissionsToReadOnly: user entries left to set
    groupPerms,     \* updatePermissionsToReadOnly: group entries left to set
                    \* (both 0 outside the function)
    repoFolder,     \* migrateRepo: clone folder ("" until cloned)
    response,       \* getPrs: PR-list response being decoded
    prs,            \* migrateRepo: decoded and sorted PR records
    err,            \* error value that reached log.Fatalf ("" if none)
    ghRepo,         \* migrateRepo: destination repository descriptor
    i,              \* loop index of the running loop (poll attempt / record)
    issueNumber,    \* createClosedPrs: number of the issue just created
    calls,          \* history: calls issued by the function (or loop) now running
    pushOk,         \* history: mirror push of this repository succeeded
    paced,          \* history: a sleep has run since the last mutating call
    backends        \* the two backends: what the source holds and what the
                    \* destination has been given (kept only when they are
                    \* taken to answer reliably, see Served)

vars == <<data, cleaned_repos, ppc, projectName, topic, config, repoList,
          repoIdx, pc, bbRepo,
          userPerms, groupPerms, repoFolder, response, prs, err, ghRepo, i,
          issueNumber, calls, pushOk, paced, backends>>

pvars == <<config, repoList, repoIdx, pc, bbRepo, userPerms, groupPerms,
           repoFolder, response, prs, err, ghRepo, i, issueNumber, calls,
           pushOk, paced, backends>>

fvars == <<data, cleaned_repos, ppc, projectName, topic>>

(***************************************************************************)
(* Bounds                                                                  *)
(***************************************************************************)
MaxLen == 3         \* longest repo file, in characters
MaxRepos == 2       \* longest repository list
MaxPerms == 1       \* most user (and group) permission entries
MaxPrs == 2         \* most entries in a PR-list response
MaxId == 2          \* largest pull-request id

(***************************************************************************)
(* Strings                                                                 *)
(***************************************************************************)
Alphabet == {"a", " ", "\t", "\n", "#", "-", "/", "+", "&", "(", ")"}

Whitespace == {" ", "\t", "\n"}

SeqsUpTo(S, n) == UNION {[1..k -> S] : k \in 0..n}

RECURSIVE TrimLeft(_, _)
TrimLeft(s, cutset) ==
    IF s # <<>> /\ Head(s) \in cutset THEN TrimLeft(Tail(s), cutset) ELSE s

RECURSIVE TrimRight(_, _)
TrimRight(s, cutset) ==
    IF s # <<>> /\ s[Len(s)] \in cutset
    THEN TrimRight(SubSeq(s, 1, Len(s) - 1), cutset)
    ELSE s

\* strings.Trim(s, cutset)
Trim(s, cutset) == TrimRight(TrimLeft(s, cutset), cutset)

\* strings.TrimSpace(s)
TrimSpace(s) == Trim(s, Whitespace)

\* strings.ReplaceAll(s, old, new) for one-character old and new
ReplaceAll(s, old, new) == [k \in 1..Len(s) |-> IF s[k] = old THEN new ELSE s[k]]

\* strings.Split(s, sep) for a one-character sep
RECURSIVE Split(_, _)
Split(s, sep) ==
    IF \A k \in 1..Len(s) : s[k] # sep
    THEN <<s>>
    ELSE LET p == CHOOSE k \in 1..Len(s) :
                      s[k] = sep /\ \A j \in 1..(k - 1) : s[j] # sep
         IN  <<SubSeq(s, 1, p - 1)>> \o Split(SubSeq(s, p + 1, Len(s)), sep)

\* main.go:133-142, the body of the loop for one non-comment line
cleanRepoNoTrim(repo) ==
    ReplaceAll(ReplaceAll(ReplaceAll(ReplaceAll(ReplaceAll(ReplaceAll(
        repo, " ", "-"), "/", "-"), "+", "-"), "&", "-"), "(", "-"), ")", "-")

cleanRepo(repo) ==
    Trim(ReplaceAll(ReplaceAll(ReplaceAll(ReplaceAll(ReplaceAll(ReplaceAll(
        repo, " ", "-"), "/", "-"), "+", "-"), "&", "-"), "(", "-"), ")", "-"),
         {"-"})

\* main.go:126-145, the loop over the lines
RECURSIVE cleanLines(_)
cleanLines(repos) ==
    IF repos = <<>> THEN <<>>
    ELSE LET repo == TrimSpace(Head(repos))
         IN  IF repo # <<>>
             THEN IF repo[1] = "#"
                  THEN cleanLines(Tail(repos))
                  ELSE <<cleanRepo(repo)>> \o cleanLines(Tail(repos))
             ELSE cleanLines(Tail(repos))

\* main.go:113-147 after the file was read
parseRepos(fileData) == cleanLines(Split(fileData, "\n"))

\* the characters of a project name: two letters in both cases, the space and
\* the hyphen
TopicAlphabet == {"A", "a", "B", "b", " ", "-"}

\* strings.ToLower, character by character
ToLower(s) ==
    [k \in 1..Len(s) |->
        IF s[k] = "A" THEN "a" ELSE IF s[k] = "B" THEN "b" ELSE s[k]]

cleanTopicKeepCase(input) == ReplaceAll(input, " ", "-")

\* part_000:16-19
cleanTopic(input) == ReplaceAll(ToLower(input), " ", "-")


(***************************************************************************)
(* Configuration and inputs of the pipeline                                *)
(***************************************************************************)
\* main.go:21-40 and 48-84: the settings the pipeline reads; exactly one of
\* ghOrg and ghUser is set (main.go:79-82) and ghOwner is their join
Owners == {[ghOrg |-> "org", ghUser |-> ""], [ghOrg |-> "", ghUser |-> "user"]}

\* GITHUB_RUN_PROGRAM: an operator-supplied program ("noop" runs nothing)
Programs == {"hook"}

Settings ==
    {[dryRun |-> d, overwrite |-> o, visibility |-> v,
      ghOrg |-> w.ghOrg, ghUser |-> w.ghUser,
      ghOwner |-> IF w.ghOrg # "" THEN w.ghOrg ELSE w.ghUser,
      runProgram |-> rp, revokeOldPerms |-> r, migrateRepoContents |-> c,
      migrateRepoSettings |-> s, migrateOpenPrs |-> op, migrateClosedPrs |-> cl] :
        d \in BOOLEAN, o \in BOOLEAN, v \in {"internal", "private"},
        w \in Owners, rp \in Programs, r \in BOOLEAN, c \in BOOLEAN,
        s \in BOOLEAN, op \in BOOLEAN, cl \in BOOLEAN}

RepoNames == <<"r1", "r2", "r3", "r4">>

\* the identifier lists handed to migrateRepos
RepoLists == {SubSeq(RepoNames, 1, n) : n \in 0..MaxRepos}

NoRepo == [Slug |-> "", Is_private |-> FALSE]

NoGhRepo == [Name |-> "", Visibility |-> "", Organization |-> ""]

\* part_000:413-437, the fields of PullRequest the passes read
\* HasKeys: Author holds display_name, Source holds branch.name and ClosedBy
\* holds display_name
NoPr == [ID |-> 0, State |-> "", HasKeys |-> TRUE]

PrStates == {"OPEN", "MERGED", "DECLINED"}

BadPayload == "<not a map>"

\* entries the source backend can put in "values" of the PR-list response
PrEntries ==
    {[type |-> "pullrequest", id |-> n, state |-> st, wellTyped |-> TRUE, keys |-> TRUE,
      error |-> ""] :
        n \in 1..MaxId, st \in PrStates}
    \cup {[type |-> "pullrequest", id |-> 1, state |-> st, wellTyped |-> TRUE, keys |-> FALSE,
           error |-> ""] : st \in PrStates}
    \cup {[type |-> "pullrequest", id |-> 1, state |-> "OPEN", wellTyped |-> FALSE,
           keys |-> TRUE, error |-> ""]}
    \cup {[type |-> "error", id |-> 0, state |-> "", wellTyped |-> TRUE, keys |-> TRUE,
           error |-> m] :
        m \in {"m1", BadPayload}}

\* pull-request ids are unique within one repository
DistinctIds(v) ==
    \A a, b \in DOMAIN v :
        (a # b /\ v[a].type = "pullrequest" /\ v[b].type = "pullrequest"
            /\ v[a].wellTyped /\ v[b].wellTyped) => v[a].id # v[b].id

\* what bb.Repositories.PullRequests.Gets can hand back without an error
AllResponses ==
    {[shape |-> "map", values |-> v] :
        v \in {w \in SeqsUpTo(PrEntries, MaxPrs) : DistinctIds(w)}}
    \cup {[shape |-> "notmap", values |-> <<>>], [shape |-> "novalues", values |-> <<>>]}

FailsToDecode(e) == e.type = "error" \/ ~e.wellTyped

\* the responses the pipeline is run on: every list of entries that decode
\* and hold their keys, and of the other lists the one-entry ones
Responses ==
    {r \in AllResponses :
        Len(r.values) > 1 =>
            \A k \in DOMAIN r.values : ~FailsToDecode(r.values[k]) /\ r.values[k].keys}

NoResponse == [shape |-> "", values |-> <<>>]

(***************************************************************************)
(* Record adapter                                                          *)
(***************************************************************************)
\* part_000:394-402
DecodeError(e) ==
    IF e.error = BadPayload THEN "mapstructure: expected a map" ELSE e.error

decodePullRequestAnyType(entry) ==
    IF ~entry.wellTyped
    THEN [ok |-> FALSE, err |-> "mapstructure: unconvertible type", pr |-> NoPr]
    ELSE [ok |-> TRUE, err |-> "", pr |-> [ID |-> entry.id, State |-> entry.state, HasKeys |-> entry.keys]]

\* part_000:501-523
decodePullRequest(entry) ==
    IF entry.type = "error"
    THEN [ok |-> FALSE, err |-> DecodeError(entry), pr |-> NoPr]
    ELSE IF ~entry.wellTyped
         THEN [ok |-> FALSE, err |-> "mapstructure: unconvertible type", pr |-> NoPr]
         ELSE [ok |-> TRUE, err |-> "", pr |-> [ID |-> entry.id, State |-> entry.state, HasKeys |-> entry.keys]]

\* part_000:468-476, the loop over prArray
RECURSIVE decodeEntries(_)
decodeEntries(prArray) ==
    IF prArray = <<>> THEN [ok |-> TRUE, err |-> "", prs |-> <<>>]
    ELSE LET d == decodePullRequest(Head(prArray))
         IN  IF d.ok
             THEN LET rest == decodeEntries(Tail(prArray))
                  IN  IF rest.ok
                      THEN [ok |-> TRUE, err |-> "", prs |-> <<d.pr>> \o rest.prs]
                      ELSE rest
             ELSE [ok |-> FALSE, err |-> d.err, prs |-> <<>>]

\* part_000:461-499; "panic" is the failed type assertion of line 467
decodePullRequests(prsResponse) ==
    IF prsResponse.shape = "notmap"
    THEN [ok |-> FALSE, panic |-> FALSE, err |-> "not a valid format", prs |-> <<>>]
    ELSE IF prsResponse.shape = "novalues"
         THEN [ok |-> FALSE, panic |-> TRUE, err |-> "", prs |-> <<>>]
         ELSE LET d == decodeEntries(prsResponse.values)
              IN  [ok |-> d.ok, panic |-> FALSE, err |-> d.err, prs |-> d.prs]

\* insertion of one record into a list sorted by ID, after its equals
RECURSIVE insertById(_, _)
insertById(pr, sorted) ==
    IF sorted = <<>> THEN <<pr>>
    ELSE IF pr.ID < Head(sorted).ID
         THEN <<pr>> \o sorted
         ELSE <<Head(sorted)>> \o insertById(pr, Tail(sorted))

NoSort(values) == values

\* part_000:384-386, slices.SortFunc by cmp.Compare(i.ID, j.ID): an
\* insertion sort for slices this short
RECURSIVE SortById(_)
SortById(values) ==
    IF values = <<>> THEN <<>>
    ELSE insertById(values[Len(values)], SortById(SubSeq(values, 1, Len(values) - 1)))


(***************************************************************************)
(* Calls to the backends and to the git transport                          *)
(***************************************************************************)
Call(op, owner, name, pr, outcome) ==
    [op |-> op, owner |-> owner, name |-> name, pr |-> pr, outcome |-> outcome]

SourceMutating == {"SetUserPermissions", "SetGroupPermissions"}

DestMutating ==
    {"CreateRepository", "EditRepository", "ReplaceAllTopics",
     "CreateOrUpdateCustomProperties", "CreatePullRequest", "CreateIssue",
     "EditIssue", "CreateCommitComment"}

Mutating == SourceMutating \cup DestMutating \cup {"GitPush"}

SettingsOps == {"EditRepository", "ReplaceAllTopics", "CreateOrUpdateCustomProperties"}

PrOps == {"CreatePullRequest", "CreateIssue", "EditIssue", "CreateCommitComment"}

\* outcomes the code tells apart from success; "nil" is a failed poll read
Skippable == {"exists", "prExists", "headInvalid"}

Aborted == pc \in {"fatal", "panic"}

\* part_000:58
MaxAttempts == 20

\* largest issue number the destination hands out
MaxIssue == 1

RepoName == repoList[repoIdx]

(***************************************************************************)
(* main.go:159-207, which stage migrateRepo runs next                      *)
(***************************************************************************)
AfterClosedPrs == "doneRepo"

AfterOpenPrs == IF config.migrateClosedPrs THEN "closedPrs" ELSE AfterClosedPrs

AfterSettings == IF config.migrateOpenPrs THEN "openPrs" ELSE AfterOpenPrs

AfterPushIfContents == IF config.migrateRepoContents THEN "updateRepo" ELSE AfterSettings

AfterPush == IF config.migrateRepoSettings THEN "updateRepo" ELSE AfterSettings

AfterCreateSkipPush == AfterPush

AfterCreate == IF config.migrateRepoContents THEN "remoteAdd" ELSE AfterPush

AfterCloneRevokeAgain ==
    IF config.revokeOldPerms THEN "listUserPerms" ELSE "createRepo"

AfterClone ==
    IF config.migrateOpenPrs \/ config.migrateClosedPrs THEN "getPrs" ELSE "createRepo"

AfterPerms == IF config.migrateRepoContents THEN "cloneRepo" ELSE AfterClone

AfterGetRepo == IF config.revokeOldPerms THEN "listUserPerms" ELSE AfterPerms

\* part_000:337 and 352, the two loops of updatePermissionsToReadOnly
PermsNext(u, g) ==
    IF u > 0 THEN "setUserPerms" ELSE IF g > 0 THEN "setGroupPerms" ELSE AfterPerms

Goto(next) == pc' = next /\ i' = 0 /\ err' = err

\* log.Fatalf
Fatal(text) == pc' = "fatal" /\ i' = i /\ err' = text

\* a runtime panic
Panic == pc' = "panic" /\ i' = i /\ err' = err

\* backends that may answer any call in any way: nothing is kept of them
\* (renames: the source may return a slug other than the identifier it was
\* asked for)
FreeBackends ==
    [free |-> TRUE, renames |-> FALSE, private |-> FALSE, response |-> NoResponse,
     repos |-> {}, applied |-> {}, pulls |-> <<>>, issues |-> <<>>, comments |-> <<>>]

\* part_000:285: the slugs the source can return for repoName
SlugsFor(repoName) == IF backends.renames THEN {repoName, "moved"} ELSE {repoName}

\* the answer of reliable backends to a call: a name that is taken
\* (part_000:47), a pull request that exists (part_000:151), success otherwise
Answer(b, c) ==
    CASE c.op = "CreateRepository" -> IF c.name \in b.repos THEN "exists" ELSE "ok"
      [] c.op = "GetRepository" -> IF c.name \in b.repos THEN "ok" ELSE "nil"
      [] c.op = "CreatePullRequest" -> IF b.pulls[c.pr.ID] > 0 THEN "prExists" ELSE "ok"
      [] OTHER -> "ok"

\* what the destination holds after a call it answered
After(b, c) ==
    CASE c.op = "CreateRepository" /\ c.outcome = "ok" ->
             [b EXCEPT !.repos = @ \cup {c.name}]
      [] c.op \in {"GitPush", "EditRepository", "ReplaceAllTopics",
                   "CreateOrUpdateCustomProperties"} ->
             [b EXCEPT !.applied = @ \cup {c.op}]
      [] c.op = "CreatePullRequest" /\ c.outcome = "ok" ->
             [b EXCEPT !.pulls[c.pr.ID] = @ + 1]
      [] c.op = "CreateIssue" -> [b EXCEPT !.issues[c.pr.ID] = @ + 1]
      [] c.op = "CreateCommitComment" -> [b EXCEPT !.comments[c.pr.ID] = @ + 1]
      [] OTHER -> b

\* the backends serve the last call of newCalls
Served(newCalls) ==
    LET c == newCalls[Len(newCalls)]
    IN  IF backends.free
        THEN backends' = backends
        ELSE c.outcome = Answer(backends, c) /\ backends' = After(backends, c)

\* the step issues the last call of newCalls and does not sleep
Issue(newCalls) ==
    /\ calls' = newCalls
    /\ Served(newCalls)
    /\ paced' = IF newCalls[Len(newCalls)].op \in SourceMutating \cup DestMutating
                THEN FALSE ELSE paced

\* the step issues the last call of newCalls and sleeps before or after it
IssuePaced(newCalls) ==
    /\ calls' = newCalls
    /\ Served(newCalls)
    /\ paced' = TRUE

\* the step issues no call
NoCall(newCalls) == calls' = newCalls /\ backends' = backends /\ paced' = paced

\* the step sleeps and issues no call
Sleep(newCalls) == calls' = newCalls /\ backends' = backends /\ paced' = TRUE

\* a step issued a call: the log changed and is not empty (a function's log
\* never equals the log of the function that ran before it; only a failed
\* poll read that follows a failed poll read leaves the log as it was)
Issued == calls' # calls /\ calls' # <<>>

\* the call a step issued
LastCall == calls'[Len(calls')]


(***************************************************************************)
(* The pipeline, one action per call or step                               *)
(***************************************************************************)
\* main.go:154-156, the loop of migrateRepos
NextRepo ==
    /\ pc = "loop"
    /\ IF repoIdx < Len(repoList)
       THEN /\ repoIdx' = repoIdx + 1
            /\ Goto("getRepo")
       ELSE /\ repoIdx' = repoIdx
            /\ Goto("exit")
    /\ bbRepo' = NoRepo /\ userPerms' = 0 /\ groupPerms' = 0 /\ repoFolder' = ""
    /\ response' = NoResponse /\ prs' = <<>> /\ ghRepo' = NoGhRepo
    /\ issueNumber' = 0 /\ pushOk' = FALSE
    /\ NoCall(<<>>)
    /\ UNCHANGED <<config, repoList, fvars>>

\* part_000:279-289
GetRepo ==
    /\ pc = "getRepo"
    /\ \/ /\ Issue(<<Call("GetSourceRepository", "ws", RepoName, NoPr, "fail")>>)
          /\ Fatal("Failed to get repo from bitbucket")
          /\ bbRepo' = bbRepo
       \/ \E private \in BOOLEAN, slug \in SlugsFor(RepoName) :
            /\ backends.free \/ private = backends.private
            /\ Issue(<<Call("GetSourceRepository", "ws", RepoName, NoPr, "ok")>>)
            /\ bbRepo' = [Slug |-> slug, Is_private |-> private]
            /\ Goto(AfterGetRepo)
    /\ UNCHANGED <<config, repoList, repoIdx, userPerms, groupPerms, repoFolder,
                   response, prs, ghRepo, issueNumber, pushOk, fvars>>

\* part_000:324-327
ListUserPermissions ==
    /\ pc = "listUserPerms"
    /\ \/ /\ Issue(<<Call("ListUserPermissions", "ws", RepoName, NoPr, "fail")>>)
          /\ Fatal("Failed to get user permissions")
          /\ userPerms' = userPerms
       \/ \E n \in 0..MaxPerms :
            /\ Issue(<<Call("ListUserPermissions", "ws", RepoName, NoPr, "ok")>>)
            /\ userPerms' = n
            /\ Goto("listGroupPerms")
    /\ UNCHANGED <<config, repoList, repoIdx, bbRepo, groupPerms, repoFolder,
                   response, prs, ghRepo, issueNumber, pushOk, fvars>>

\* part_000:328-335
ListGroupPermissions ==
    /\ pc = "listGroupPerms"
    /\ \/ /\ Issue(Append(calls, Call("ListGroupPermissions", "ws", RepoName, NoPr, "fail")))
          /\ Fatal("Failed to get group permissions")
          /\ groupPerms' = groupPerms
          /\ userPerms' = userPerms
       \/ \E n \in 0..MaxPerms :
            /\ Issue(Append(calls, Call("ListGroupPermissions", "ws", RepoName, NoPr, "ok")))
            /\ IF config.dryRun
               THEN Goto(AfterPerms) /\ userPerms' = 0 /\ groupPerms' = 0
               ELSE /\ Goto(PermsNext(userPerms, n))
                    /\ userPerms' = userPerms /\ groupPerms' = n
    /\ UNCHANGED <<config, repoList, repoIdx, bbRepo, repoFolder,
                   response, prs, ghRepo, issueNumber, pushOk, fvars>>

\* part_000:337-350
SetUserPermissions ==
    /\ pc = "setUserPerms"
    /\ \/ /\ Issue(Append(calls, Call("SetUserPermissions", "ws", RepoName, NoPr, "fail")))
          /\ Fatal("Failed to update user permission")
          /\ userPerms' = userPerms
       \/ /\ IssuePaced(Append(calls, Call("SetUserPermissions", "ws", RepoName, NoPr, "ok")))
          /\ userPerms' = userPerms - 1
          /\ Goto(PermsNext(userPerms - 1, groupPerms))
    /\ UNCHANGED <<config, repoList, repoIdx, bbRepo, groupPerms, repoFolder,
                   response, prs, ghRepo, issueNumber, pushOk, fvars>>

\* part_000:352-365
SetGroupPermissions ==
    /\ pc = "setGroupPerms"
    /\ \/ /\ Issue(Append(calls, Call("SetGroupPermissions", "ws", RepoName, NoPr, "fail")))
          /\ Fatal("Failed to update group permission")
          /\ groupPerms' = groupPerms
       \/ /\ IssuePaced(Append(calls, Call("SetGroupPermissions", "ws", RepoName, NoPr, "ok")))
          /\ groupPerms' = groupPerms - 1
          /\ Goto(PermsNext(0, groupPerms - 1))
    /\ UNCHANGED <<config, repoList, repoIdx, bbRepo, userPerms, repoFolder,
                   response, prs, ghRepo, issueNumber, pushOk, fvars>>

\* part_000:292-314
CloneRepo ==
    /\ pc = "cloneRepo"
    /\ \/ /\ Issue(<<Call("MkdirTemp", "ws", RepoName, NoPr, "fail")>>)
          /\ Fatal("Failed to create temp directory")
          /\ repoFolder' = repoFolder
       \/ /\ Issue(<<Call("MkdirTemp", "ws", RepoName, NoPr, "ok"),
                     Call("GitClone", "ws", RepoName, NoPr, "fail")>>)
          /\ Fatal("Failed to clone repository")
          /\ repoFolder' = repoFolder
       \/ /\ Issue(<<Call("MkdirTemp", "ws", RepoName, NoPr, "ok"),
                     Call("GitClone", "ws", RepoName, NoPr, "ok")>>)
          /\ repoFolder' = "tmp"
          /\ Goto(AfterClone)
    /\ UNCHANGED <<config, repoList, repoIdx, bbRepo, userPerms, groupPerms,
                   response, prs, ghRepo, issueNumber, pushOk, fvars>>

\* part_000:368-379
GetsPrs ==
    /\ pc = "getPrs"
    /\ \/ /\ Issue(<<Call("ListPullRequests", "ws", RepoName, NoPr, "fail")>>)
          /\ Fatal("Failed to get PRs")
          /\ response' = response
       \/ \E r \in Responses :
            /\ backends.free \/ r = backends.response
            /\ Issue(<<Call("ListPullRequests", "ws", RepoName, NoPr, "ok")>>)
            /\ response' = r
            /\ Goto("decodePrs")
    /\ UNCHANGED <<config, repoList, repoIdx, bbRepo, userPerms, groupPerms,
                   repoFolder, prs, ghRepo, issueNumber, pushOk, fvars>>

\* part_000:380-387: decode, then sort, then return to migrateRepo
DecodePrs ==
    /\ pc = "decodePrs"
    /\ LET d == decodePullRequests(response)
       IN  IF d.panic
           THEN Panic /\ prs' = prs /\ response' = response
           ELSE IF ~d.ok
                THEN Fatal(d.err) /\ prs' = prs /\ response' = response
                ELSE /\ prs' = SortById(d.prs)
                     /\ response' = NoResponse
                     /\ Goto("createRepo")
    /\ NoCall(calls)
    /\ UNCHANGED <<config, repoList, repoIdx, bbRepo, userPerms, groupPerms,
                   repoFolder, ghRepo, issueNumber, pushOk, fvars>>

ConfiguredVisibility(repo) == config.visibility

\* part_000:22-27
Visibility(repo) == IF repo.Is_private THEN config.visibility ELSE "public"

\* part_000:28-38
Descriptor(repo) ==
    [Name |-> repo.Slug, Visibility |-> Visibility(repo), Organization |-> config.ghOrg]

OverwriteNeverRefused == FALSE

\* part_000:48
OverwriteRefused == ~config.overwrite

\* part_000:21-54
CreateRepo ==
    /\ pc = "createRepo"
    /\ ghRepo' = Descriptor(bbRepo)
    /\ IF config.dryRun
       THEN NoCall(<<>>) /\ Goto(AfterCreate)
       ELSE \E outcome \in {"ok", "exists", "fail"} :
            /\ Issue(<<Call("CreateRepository", config.ghOrg, bbRepo.Slug, NoPr, outcome)>>)
            /\ IF outcome = "exists"
               THEN IF OverwriteRefused
                    THEN Fatal("Refusing to overwrite Github repo")
                    ELSE Goto("waitRepo")
               ELSE IF outcome = "fail"
                    THEN Fatal("failed to create repo")
                    ELSE Goto("waitRepo")
    /\ UNCHANGED <<config, repoList, repoIdx, bbRepo, userPerms, groupPerms,
                   repoFolder, response, prs, issueNumber, pushOk, fvars>>

RepoAvailableWhateverRead(outcome) == TRUE

\* part_000:61, response != nil
RepoAvailable(outcome) == outcome = "ok"

\* part_000:58-70; i counts the reads that failed, and the log of the wait
\* loop holds its latest read only
WaitRepo ==
    /\ pc = "waitRepo"
    /\ \E outcome \in {"ok", "nil"} :
         /\ IssuePaced(<<Call("GetRepository", config.ghOwner, bbRepo.Slug, NoPr, outcome)>>)
         /\ IF RepoAvailable(outcome)
            THEN Goto(AfterCreate)
            ELSE IF i + 1 < MaxAttempts
                 THEN pc' = pc /\ i' = i + 1 /\ err' = err
                 ELSE Fatal("Repo has still not been created")
    /\ UNCHANGED <<config, repoList, repoIdx, bbRepo, userPerms, groupPerms,
                   repoFolder, response, prs, ghRepo, issueNumber, pushOk, fvars>>


\* part_000:233-239
RemoteAdd ==
    /\ pc = "remoteAdd"
    /\ \/ /\ Issue(<<Call("GitRemoteAdd", config.ghOwner, RepoName, NoPr, "fail")>>)
          /\ Fatal("Failed to add new git origin")
       \/ /\ Issue(<<Call("GitRemoteAdd", config.ghOwner, RepoName, NoPr, "ok")>>)
          /\ Goto("runProgram")
    /\ UNCHANGED <<config, repoList, repoIdx, bbRepo, userPerms, groupPerms,
                   repoFolder, response, prs, ghRepo, issueNumber, pushOk, fvars>>

\* part_000:219-226 and 241-249
RunProgram ==
    /\ pc = "runProgram"
    /\ LET next == IF config.dryRun THEN AfterPush ELSE "push"
       IN  IF config.runProgram # "noop"
           THEN \/ /\ Issue(Append(calls, Call("RunProgram", "", repoFolder, NoPr, "fail")))
                   /\ Fatal("Failed to run custom program")
                \/ /\ Issue(Append(calls, Call("RunProgram", "", repoFolder, NoPr, "ok")))
                   /\ Goto(next)
           ELSE NoCall(calls) /\ Goto(next)
    /\ UNCHANGED <<config, repoList, repoIdx, bbRepo, userPerms, groupPerms,
                   repoFolder, response, prs, ghRepo, issueNumber, pushOk, fvars>>

\* part_000:251-259
Push ==
    /\ pc = "push"
    /\ \/ /\ Issue(Append(calls, Call("GitPush", config.ghOwner, RepoName, NoPr, "fail")))
          /\ Fatal("Failed to push")
          /\ pushOk' = pushOk
       \/ /\ Issue(Append(calls, Call("GitPush", config.ghOwner, RepoName, NoPr, "ok")))
          /\ pushOk' = TRUE
          /\ Goto(AfterPush)
    /\ UNCHANGED <<config, repoList, repoIdx, bbRepo, userPerms, groupPerms,
                   repoFolder, response, prs, ghRepo, issueNumber, fvars>>

\* part_000:109-119
UpdateRepo ==
    /\ pc = "updateRepo"
    /\ IF config.dryRun
       THEN NoCall(<<>>) /\ Goto("updateRepoTopics")
       ELSE \/ /\ Issue(<<Call("EditRepository", config.ghOwner, ghRepo.Name, NoPr, "fail")>>)
               /\ Fatal("failed to update repo")
            \/ /\ Issue(<<Call("EditRepository", config.ghOwner, ghRepo.Name, NoPr, "ok")>>)
               /\ Goto("updateRepoTopics")
    /\ UNCHANGED <<config, repoList, repoIdx, bbRepo, userPerms, groupPerms,
                   repoFolder, response, prs, ghRepo, issueNumber, pushOk, fvars>>

\* part_000:75-85
UpdateRepoTopics ==
    /\ pc = "updateRepoTopics"
    /\ IF config.dryRun
       THEN NoCall(<<>>) /\ Goto("updateCustomProperties")
       ELSE \/ /\ Issue(<<Call("ReplaceAllTopics", config.ghOwner, ghRepo.Name, NoPr, "fail")>>)
               /\ Fatal("failed to update topics")
            \/ /\ Issue(<<Call("ReplaceAllTopics", config.ghOwner, ghRepo.Name, NoPr, "ok")>>)
               /\ Goto("updateCustomProperties")
    /\ UNCHANGED <<config, repoList, repoIdx, bbRepo, userPerms, groupPerms,
                   repoFolder, response, prs, ghRepo, issueNumber, pushOk, fvars>>

CustomPropsNoopOrgOnly(githubOrg) == githubOrg = ""

\* part_000:88-92 and 103-105, the two early returns
CustomPropsNoop(githubOrg) == githubOrg = "" \/ config.dryRun

\* part_000:87-107, called with githubOrg = config.ghOwner (main.go:189);
\* the result of the call is discarded
UpdateCustomProperties ==
    /\ pc = "updateCustomProperties"
    /\ LET githubOrg == config.ghOwner
       IN  IF CustomPropsNoop(githubOrg)
           THEN NoCall(<<>>)
           ELSE \E outcome \in {"ok", "fail"} :
                  Issue(<<Call("CreateOrUpdateCustomProperties", githubOrg, ghRepo.Name,
                               NoPr, outcome)>>)
    /\ Goto(AfterSettings)
    /\ UNCHANGED <<config, repoList, repoIdx, bbRepo, userPerms, groupPerms,
                   repoFolder, response, prs, ghRepo, issueNumber, pushOk, fvars>>

\* the calls of the running pass: none yet when the loop is entered
PassCalls == IF i = 0 THEN <<>> ELSE calls

SkippableOnlyExists(outcome) == outcome = "prExists"

\* part_000:151-154, the failures of create-pull-request that are logged
\* and skipped
SkippablePrFailure(outcome) == outcome \in {"prExists", "headInvalid"}

\* part_000:131-133
SkipInOpenPass(pr) == pr.State # "OPEN"

\* part_000:136, 138 and 173-176: the type assertion on a key that is absent
\* panics
AssertionPanics(pr) == ~pr.HasKeys

SkipOnlyOpen(pr) == pr.State = "OPEN"

\* part_000:169-171
SkipInClosedPass(pr) == pr.State # "MERGED"

\* part_000:129-164, one iteration of the loop (or its exit)
MigrateOpenPr ==
    /\ pc = "openPrs"
    /\ IF i >= Len(prs)
       THEN NoCall(PassCalls) /\ Goto(AfterOpenPrs)
       ELSE LET pr == prs[i + 1]
            IN  IF SkipInOpenPass(pr)
                THEN NoCall(PassCalls) /\ pc' = pc /\ i' = i + 1 /\ err' = err
                ELSE IF AssertionPanics(pr)
                THEN NoCall(PassCalls) /\ Panic
                ELSE IF config.dryRun
                     THEN NoCall(PassCalls) /\ Goto(AfterOpenPrs)
                     ELSE \E outcome \in {"ok", "prExists", "headInvalid", "fail"} :
                          LET create == Call("CreatePullRequest", config.ghOwner,
                                             ghRepo.Name, pr, outcome)
                          IN  IF outcome = "ok" \/ SkippablePrFailure(outcome)
                              THEN /\ IssuePaced(Append(PassCalls, create))
                                   /\ pc' = pc /\ i' = i + 1 /\ err' = err
                              ELSE /\ Issue(Append(PassCalls, create))
                                   /\ Fatal("failed to create PR")
    /\ UNCHANGED <<config, repoList, repoIdx, bbRepo, userPerms, groupPerms,
                   repoFolder, response, prs, ghRepo, issueNumber, pushOk, fvars>>

\* part_000:167-198, the head of one iteration of the loop (or its exit)
CreateClosedPr ==
    /\ pc = "closedPrs"
    /\ IF i >= Len(prs)
       THEN NoCall(PassCalls) /\ Goto(AfterClosedPrs) /\ issueNumber' = 0
       ELSE LET pr == prs[i + 1]
            IN  IF SkipInClosedPass(pr)
                THEN /\ NoCall(PassCalls) /\ pc' = pc /\ i' = i + 1 /\ err' = err
                     /\ issueNumber' = 0
                ELSE IF AssertionPanics(pr)
                THEN NoCall(PassCalls) /\ Panic /\ issueNumber' = 0
                ELSE IF config.dryRun
                     THEN NoCall(PassCalls) /\ Goto(AfterClosedPrs) /\ issueNumber' = 0
                     ELSE \/ /\ Issue(Append(PassCalls,
                                    Call("CreateIssue", config.ghOwner, ghRepo.Name, pr, "fail")))
                             /\ Fatal("failed to create issue for PR")
                             /\ issueNumber' = 0
                          \/ \E n \in 1..MaxIssue :
                             /\ Issue(Append(PassCalls,
                                    Call("CreateIssue", config.ghOwner, ghRepo.Name, pr, "ok")))
                             /\ issueNumber' = n
                             /\ pc' = "commitComment" /\ i' = i /\ err' = err
    /\ UNCHANGED <<config, repoList, repoIdx, bbRepo, userPerms, groupPerms,
                   repoFolder, response, prs, ghRepo, pushOk, fvars>>

\* part_000:200-207
CommitComment ==
    /\ pc = "commitComment"
    /\ \/ /\ Issue(Append(calls,
                Call("CreateCommitComment", config.ghOwner, ghRepo.Name, prs[i + 1], "fail")))
          /\ Fatal("failed to comment on commit")
       \/ /\ Issue(Append(calls,
                Call("CreateCommitComment", config.ghOwner, ghRepo.Name, prs[i + 1], "ok")))
          /\ pc' = "closeIssue" /\ i' = i /\ err' = err
    /\ UNCHANGED <<config, repoList, repoIdx, bbRepo, userPerms, groupPerms,
                   repoFolder, response, prs, ghRepo, issueNumber, pushOk, fvars>>

\* part_000:209-215
CloseIssue ==
    /\ pc = "closeIssue"
    /\ \/ /\ Issue(Append(calls,
                Call("EditIssue", config.ghOwner, ghRepo.Name, prs[i + 1], "fail")))
          /\ Fatal("failed to close issue")
          /\ issueNumber' = issueNumber
       \/ /\ IssuePaced(Append(calls,
                Call("EditIssue", config.ghOwner, ghRepo.Name, prs[i + 1], "ok")))
          /\ pc' = "closedPrs" /\ i' = i + 1 /\ err' = err
          /\ issueNumber' = 0
    /\ UNCHANGED <<config, repoList, repoIdx, bbRepo, userPerms, groupPerms,
                   repoFolder, response, prs, ghRepo, pushOk, fvars>>

\* main.go:203-206
FinishRepo ==
    /\ pc = "doneRepo"
    /\ Goto("loop")
    /\ Sleep(<<>>)
    /\ UNCHANGED <<config, repoList, repoIdx, bbRepo, userPerms, groupPerms,
                   repoFolder, response, prs, ghRepo, issueNumber, pushOk, fvars>>

(***************************************************************************)
(* Specifications                                                          *)
(***************************************************************************)
DefaultSettings ==
    [dryRun |-> FALSE, overwrite |-> FALSE, visibility |-> "internal",
     ghOrg |-> "org", ghUser |-> "", ghOwner |-> "org", runProgram |-> "noop",
     revokeOldPerms |-> FALSE, migrateRepoContents |-> FALSE,
     migrateRepoSettings |-> FALSE, migrateOpenPrs |-> FALSE,
     migrateClosedPrs |-> FALSE]

PipelineIdle ==
    /\ repoIdx = 0 /\ bbRepo = NoRepo /\ userPerms = 0 /\ groupPerms = 0
    /\ repoFolder = "" /\ response = NoResponse /\ prs = <<>> /\ err = ""
    /\ ghRepo = NoGhRepo /\ i = 0 /\ issueNumber = 0 /\ calls = <<>>
    /\ pushOk = FALSE /\ paced = TRUE

\* main.go:86-91: the pipeline starts on a parsed list with frozen settings
Init ==
    /\ config \in Settings
    /\ repoList \in RepoLists
    /\ pc = "loop"
    /\ PipelineIdle
    /\ backends = FreeBackends
    /\ data = <<>> /\ cleaned_repos = <<>> /\ ppc = "idle"
    /\ projectName = <<>> /\ topic = <<>>

Next ==
    \/ NextRepo
    \/ GetRepo
    \/ ListUserPermissions
    \/ ListGroupPermissions
    \/ SetUserPermissions
    \/ SetGroupPermissions
    \/ CloneRepo
    \/ GetsPrs
    \/ DecodePrs
    \/ CreateRepo
    \/ WaitRepo
    \/ RemoteAdd
    \/ RunProgram
    \/ Push
    \/ UpdateRepo
    \/ UpdateRepoTopics
    \/ UpdateCustomProperties
    \/ MigrateOpenPr
    \/ CreateClosedPr
    \/ CommitComment
    \/ CloseIssue
    \/ FinishRepo

Spec == Init /\ [][Next]_vars

\* main.go:113-147: parseRepos applied to one repo file
ParseRepos ==
    /\ ppc = "start"
    /\ cleaned_repos' = parseRepos(data)
    /\ ppc' = "parsed"
    /\ UNCHANGED <<data, projectName, topic, pvars>>

InitParse ==
    /\ data \in SeqsUpTo(Alphabet, MaxLen)
    /\ cleaned_repos = <<>>
    /\ ppc = "start"
    /\ projectName = <<>> /\ topic = <<>>
    /\ config = DefaultSettings
    /\ repoList = <<>>
    /\ pc = "parse"
    /\ PipelineIdle
    /\ backends = FreeBackends

NextParse == ParseRepos

SpecParse == InitParse /\ [][NextParse]_vars

\* part_000:376-380: getPrs with a response in hand, about to decode it
InitDecode ==
    /\ response \in AllResponses
    /\ pc = "decodePrs"
    /\ config = [DefaultSettings EXCEPT !.migrateOpenPrs = TRUE]
    /\ repoList = <<"r1">> /\ repoIdx = 1
    /\ bbRepo = [Slug |-> "r1", Is_private |-> FALSE]
    /\ calls = <<Call("ListPullRequests", "ws", "r1", NoPr, "ok")>>
    /\ userPerms = 0 /\ groupPerms = 0 /\ repoFolder = "" /\ prs = <<>>
    /\ err = "" /\ ghRepo = NoGhRepo /\ i = 0 /\ issueNumber = 0
    /\ pushOk = FALSE /\ paced = TRUE /\ backends = FreeBackends
    /\ data = <<>> /\ cleaned_repos = <<>> /\ ppc = "idle"
    /\ projectName = <<>> /\ topic = <<>>

NextDecode == DecodePrs

SpecDecode == InitDecode /\ [][NextDecode]_vars

\* part_000:38: cleanTopic applied to one project name
CleanTopic ==
    /\ ppc = "clean"
    /\ topic' = cleanTopic(projectName)
    /\ ppc' = "cleaned"
    /\ UNCHANGED <<data, cleaned_repos, projectName, pvars>>

InitTopic ==
    /\ projectName \in SeqsUpTo(TopicAlphabet, MaxLen)
    /\ topic = <<>>
    /\ ppc = "clean"
    /\ data = <<>> /\ cleaned_repos = <<>>
    /\ config = DefaultSettings
    /\ repoList = <<>>
    /\ pc = "topic"
    /\ PipelineIdle
    /\ backends = FreeBackends

NextTopic == CleanTopic

SpecTopic == InitTopic /\ [][NextTopic]_vars

\* a destination that holds the repositories of taken and nothing else, and
\* a source that holds one repository with the PR list r
ReliableBackends(private, r, taken) ==
    [free |-> FALSE, renames |-> FALSE, private |-> private, response |-> r,
     repos |-> taken,
     applied |-> {}, pulls |-> [n \in 1..MaxId |-> 0],
     issues |-> [n \in 1..MaxId |-> 0], comments |-> [n \in 1..MaxId |-> 0]]

\* main.go:149-157: the tool run twice over one repository, with overwrite
\* and without dry run, against backends that answer reliably and a source
\* that does not change; migrateRepo keeps nothing between two calls, so the
\* second run of the tool is the second element of the list
InitRerun ==
    /\ config \in {s \in Settings : s.overwrite /\ ~s.dryRun}
    /\ repoList = <<"r1", "r1">>
    /\ pc = "loop"
    /\ PipelineIdle
    /\ backends \in {ReliableBackends(private, r, taken) :
                        private \in BOOLEAN, r \in Responses, taken \in SUBSET {"r1"}}
    /\ data = <<>> /\ cleaned_repos = <<>> /\ ppc = "idle"
    /\ projectName = <<>> /\ topic = <<>>

SpecRerun == InitRerun /\ [][Next]_vars

\* main.go:149-157 and part_000:279-289: one repository migrated from a
\* source that may return a slug other than the identifier of the repo file
InitRename ==
    /\ config \in Settings
    /\ repoList = <<"r1">>
    /\ pc = "loop"
    /\ PipelineIdle
    /\ backends = [FreeBackends EXCEPT !.renames = TRUE]
    /\ data = <<>> /\ cleaned_repos = <<>> /\ ppc = "idle"
    /\ projectName = <<>> /\ topic = <<>>

SpecRename == InitRename /\ [][Next]_vars


(***************************************************************************)
(* Properties                                                              *)
(***************************************************************************)
AllStages ==
    /\ config.revokeOldPerms /\ config.migrateRepoContents
    /\ config.migrateRepoSettings /\ config.migrateOpenPrs
    /\ config.migrateClosedPrs

HasState(list, st) == \E k \in DOMAIN list : list[k].State = st

\* C1: in a dry run no mutating call is ever issued to either backend, and
\* no mirror push: no permission set, create/edit repository, replace
\* topics, custom-property update, create pull request, create/edit issue or
\* commit comment, whatever the stage toggles and the repository list are.
DryRunIssuesNoMutatingCall ==
    config.dryRun => \A k \in DOMAIN calls : calls[k].op \notin Mutating

\* a dry run with every stage enabled reached the end of a repository whose
\* PR list held an OPEN and a MERGED record
DryRunCompleted ==
    /\ config.dryRun /\ AllStages
    /\ pc = "doneRepo" /\ repoIdx = Len(repoList)
    /\ HasState(prs, "OPEN") /\ HasState(prs, "MERGED")

\* C2: with content transfer enabled, an edit-repository, replace-topics or
\* custom-property call is issued only after the mirror push of the same
\* repository succeeded (a failed push ends the run, so none follows it).
SettingsOnlyAfterPush ==
    config.migrateRepoContents =>
        \A k \in DOMAIN calls : calls[k].op \in SettingsOps => pushOk

\* a custom-property call was issued after a successful push
SettingsAppliedAfterPush ==
    /\ config.migrateRepoContents /\ pushOk
    /\ \E k \in DOMAIN calls : calls[k].op = "CreateOrUpdateCustomProperties"

\* C3: every failure of a source read, transfer step or mutating destination
\* call that is not Skippable (and is not a failed poll read) ends the
\* program at once, and after the end no further call is issued.
FailureAbortsRun ==
    [][/\ (Issued /\ LastCall.outcome = "fail") => pc' = "fatal"
       /\ Aborted => (calls' = calls /\ pc' = pc)]_vars

\* C4: in the open-PR pass a Skippable failure of create-pull-request does
\* not end the pass: the run is not aborted by it, and every OPEN record the
\* loop has gone past, the later ones included, had its create attempted.
OpenPassAttempted ==
    \A j \in 1..i :
        prs[j].State = "OPEN" =>
            \E k \in DOMAIN calls :
                calls[k].op = "CreatePullRequest" /\ calls[k].pr = prs[j]

OnlyOpenAndMergedMigrated ==
    \A k \in DOMAIN calls :
        /\ calls[k].op = "CreatePullRequest" => calls[k].pr.State = "OPEN"
        /\ calls[k].op \in {"CreateIssue", "CreateCommitComment", "EditIssue"}
               => calls[k].pr.State = "MERGED"

\* both passes ran to the end over a list holding a DECLINED record
DeclinedRecordPassedOver ==
    /\ ~config.dryRun /\ config.migrateOpenPrs /\ config.migrateClosedPrs
    /\ pc = "doneRepo" /\ HasState(prs, "DECLINED") /\ HasState(prs, "MERGED")
    /\ \E k \in DOMAIN calls : calls[k].op = "EditIssue"

\* C6: within a pass the destination calls are issued in non-decreasing id
\* order, whatever order the source returned the records in.
CallsInIdOrder ==
    \A k, l \in DOMAIN calls :
        (k < l /\ calls[k].op \in PrOps /\ calls[l].op \in PrOps)
            => calls[k].pr.ID <= calls[l].pr.ID

\* the pass issued a call for each of two OPEN records
TwoRecordsMigratedInOrder ==
    /\ Len(calls) = 2
    /\ calls[1].op = "CreatePullRequest" /\ calls[2].op = "CreatePullRequest"
    /\ calls[1].pr.ID < calls[2].pr.ID

\* C7: the descriptor built by createRepo has the configured
\* private-visibility value when the source is private and "public"
\* otherwise, in every configuration.
DescriptorVisibility ==
    ghRepo # NoGhRepo =>
        /\ bbRepo.Is_private => ghRepo.Visibility = config.visibility
        /\ ~bbRepo.Is_private => ghRepo.Visibility = "public"

\* createRepo built the descriptor of a private source in a dry run
PrivateDescriptorBuilt ==
    /\ ghRepo # NoGhRepo /\ bbRepo.Is_private /\ config.dryRun
    /\ config.visibility = "private" /\ ghRepo.Visibility = "private"

HasErrorEntry(r) == \E k \in DOMAIN r.values : r.values[k].type = "error"

FirstFailing(r) ==
    CHOOSE k \in DOMAIN r.values :
        FailsToDecode(r.values[k]) /\ \A j \in 1..(k - 1) : ~FailsToDecode(r.values[j])

ReplacedChars == {" ", "/", "+", "&", "(", ")"}

\* s without its leading and trailing characters of cut
Core(s, cut) ==
    LET keep == {k \in 1..Len(s) : s[k] \notin cut}
    IN  IF keep = {} THEN <<>>
        ELSE SubSeq(s, CHOOSE k \in keep : \A j \in keep : k <= j,
                       CHOOSE k \in keep : \A j \in keep : k >= j)

Cuts(d) == {0, Len(d) + 1} \cup {k \in 1..Len(d) : d[k] = "\n"}

NthCut(d, n) == CHOOSE c \in Cuts(d) : Cardinality({x \in Cuts(d) : x < c}) = n

LinesOf(d) ==
    [j \in 1..(Cardinality(Cuts(d)) - 1) |->
        SubSeq(d, NthCut(d, j - 1) + 1, NthCut(d, j) - 1)]

KeptLine(line) ==
    LET t == Core(line, Whitespace) IN t # <<>> /\ t[1] # "#"

IdentifierOf(line) ==
    LET t == Core(line, Whitespace)
    IN  Core([k \in 1..Len(t) |-> IF t[k] \in ReplacedChars THEN "-" ELSE t[k]], {"-"})

ExpectedRepos(d) ==
    LET kept == SelectSeq(LinesOf(d), KeptLine)
    IN  [k \in 1..Len(kept) |-> IdentifierOf(kept[k])]

\* C9: parseRepos returns, in line order, one identifier per line that is
\* neither blank nor '#'-prefixed after trimming: the trimmed line with ' ',
\* '/', '+', '&', '(' and ')' replaced by '-' and leading and trailing '-'
\* removed; blank and '#'-prefixed lines contribute nothing.
ParseReposAsSpecified ==
    ppc = "parsed" => cleaned_repos = ExpectedRepos(data)

\* a file with a comment line and a line that needs replacing and trimming
CommentDroppedLineCleaned ==
    /\ ppc = "parsed"
    /\ data = <<"#", "\n", "(">> \/ data = <<"(", "a", "/">> \/ data = <<"a", "\n", "a">>
    /\ Len(cleaned_repos) >= 1

\* C10: normalization is idempotent: parseRepos applied to the single line r,
\* for an identifier r it returned, yields exactly <<r>>.
ParseReposIdempotent ==
    ppc = "parsed" =>
        \A k \in DOMAIN cleaned_repos :
            parseRepos(cleaned_repos[k]) = <<cleaned_repos[k]>>

\* the characters a destination repository name may hold: ASCII letters
\* (the letter of Alphabet), digits, '-', '_' and '.'
AllowedNameChars == {"a", "-", "_", "."}

\* C11: every identifier returned by parseRepos has no leading or trailing
\* '-' and holds no character outside the destination's allowed
\* repository-name set (letters, digits, '-', '_', '.').
IdentifiersAreValidNames ==
    ppc = "parsed" =>
        \A k \in DOMAIN cleaned_repos :
            LET r == cleaned_repos[k]
            IN  /\ r # <<>> => (r[1] # "-" /\ r[Len(r)] # "-")
                /\ \A j \in DOMAIN r : r[j] \in AllowedNameChars

\* the half of C11 that the final trim does establish
NoLeadingOrTrailingHyphen ==
    ppc = "parsed" =>
        \A k \in DOMAIN cleaned_repos :
            LET r == cleaned_repos[k]
            IN  r # <<>> => (r[1] # "-" /\ r[Len(r)] # "-")

\* two names that differ only in letter case
SameUpToCase(s, t) ==
    /\ Len(s) = Len(t)
    /\ \A k \in 1..Len(s) : s[k] = t[k] \/ {s[k], t[k]} \in {{"A", "a"}, {"B", "b"}}

\* C12: cleanTopic is idempotent and case-insensitive: cleaning a slug again
\* returns it unchanged, and every name that differs from the cleaned name
\* only in letter case gets the same slug.
CleanTopicIdempotentCaseInsensitive ==
    ppc = "cleaned" =>
        /\ cleanTopic(topic) = topic
        /\ \A other \in SeqsUpTo(TopicAlphabet, Len(projectName)) :
               SameUpToCase(other, projectName) => cleanTopic(other) = topic

\* a name with an upper-case letter and a space was cleaned
MixedCaseNameCleaned ==
    /\ ppc = "cleaned"
    /\ projectName = <<"A", " ", "b">> /\ topic = <<"a", "-", "b">>

\* C13: when no destination organization is configured (user-owned
\* destination), the custom-property update issues no destination call.
NoCustomPropertyCallWithoutOrg ==
    config.ghOrg = "" =>
        \A k \in DOMAIN calls : calls[k].op # "CreateOrUpdateCustomProperties"

\* the stage of migrateRepo a position belongs to, in the order of the
\* stage list; 0 is the loop of migrateRepos between two repositories
StageOf(at) ==
    CASE at = "loop" -> 0
      [] at = "getRepo" -> 1
      [] at \in {"listUserPerms", "listGroupPerms", "setUserPerms", "setGroupPerms"} -> 2
      [] at = "cloneRepo" -> 3
      [] at \in {"getPrs", "decodePrs"} -> 4
      [] at \in {"createRepo", "waitRepo"} -> 5
      [] at \in {"remoteAdd", "runProgram", "push"} -> 6
      [] at \in {"updateRepo", "updateRepoTopics", "updateCustomProperties"} -> 7
      [] at = "openPrs" -> 8
      [] at \in {"closedPrs", "commitComment", "closeIssue"} -> 9
      [] at = "doneRepo" -> 10
      [] OTHER -> 11

\* C14: per repository the stages run in the order of the stage list and a
\* stage that was left is never entered again; the repository changes only
\* between two runs of migrateRepo, to the next one of the list, and every
\* call is issued for the repository being migrated.
StagesRunOnceInOrder ==
    [][/\ pc # "doneRepo" => StageOf(pc') >= StageOf(pc)
       /\ pc = "doneRepo" => pc' = "loop"
       /\ repoIdx' # repoIdx =>
             (pc = "loop" /\ repoIdx' = repoIdx + 1 /\ pc' = "getRepo")
       /\ (Issued /\ LastCall.op # "RunProgram") =>
             LastCall.name \in {repoList[repoIdx'], bbRepo'.Slug}]_vars

\* the second repository of the list went through every stage and is done
SecondRepositoryDone ==
    /\ AllStages /\ ~config.dryRun
    /\ repoIdx = 2 /\ pc = "doneRepo" /\ pushOk
    /\ HasState(prs, "MERGED")
    /\ calls # <<>> /\ calls[Len(calls)].op = "EditIssue"

\* C15: outside a dry run, a create-repository failure classified as 'name
\* already exists' ends the run when overwrite is disabled and leads to the
\* existence wait when it is enabled; any other create failure ends the run;
\* and once the run has ended no call is issued, so none targets the
\* repository that already existed.
CreateFailureHandling ==
    [][/\ (pc = "createRepo" /\ Issued /\ LastCall.op = "CreateRepository") =>
             /\ (LastCall.outcome = "exists" /\ ~config.overwrite) => pc' = "fatal"
             /\ (LastCall.outcome = "exists" /\ config.overwrite) => pc' = "waitRepo"
             /\ LastCall.outcome = "fail" => pc' = "fatal"
       /\ pc = "fatal" => (calls' = calls /\ pc' = pc)]_vars

\* the create call found the name taken, with overwrite disabled and content
\* transfer, settings and both PR passes enabled: the run ended there
OverwriteWasRefused ==
    /\ pc = "fatal" /\ err = "Refusing to overwrite Github repo"
    /\ ~config.overwrite /\ AllStages
    /\ calls = <<Call("CreateRepository", config.ghOrg, RepoName, NoPr, "exists")>>

\* C16: the creation wait terminates: each read either ends the wait or
\* uses up one of 20 attempts; a successful read returns to migrateRepo at
\* once, the 20th failed read ends the run, and outside a dry run createRepo
\* is left for a later stage only by a step that read the repository
\* successfully.
CreationWaitTerminates ==
    [][/\ pc = "waitRepo" =>
             /\ i < 20
             /\ LastCall.op = "GetRepository"
             /\ LastCall.outcome = "ok" => StageOf(pc') \in 6..10
             /\ LastCall.outcome = "nil" =>
                   IF i + 1 < 20 THEN pc' = "waitRepo" /\ i' = i + 1
                                 ELSE pc' = "fatal"
       /\ (StageOf(pc) = 5 /\ StageOf(pc') \in 6..10 /\ ~config.dryRun) =>
             (pc = "waitRepo" /\ LastCall.outcome = "ok")]_vars

\* all 20 reads failed and the run ended
AttemptBudgetExhausted ==
    /\ pc = "fatal" /\ err = "Repo has still not been created" /\ i = 19
    /\ calls = <<Call("GetRepository", config.ghOwner, RepoName, NoPr, "nil")>>

\* the issues a log created and did not close
OpenIssues(log) ==
    {k \in DOMAIN log :
        /\ log[k].op = "CreateIssue" /\ log[k].outcome = "ok"
        /\ ~\E l \in DOMAIN log :
               l > k /\ log[l].op = "EditIssue" /\ log[l].pr = log[k].pr
                     /\ log[l].outcome = "ok"}

\* C17: in the merged-PR pass the destination call that follows the creation
\* of an issue is the closing edit of that issue, the commit comment is
\* attached for the same record, a failure of any of the three calls ends
\* the run, and when the pass ends or the run is aborted no issue the pass
\* created is left open.
IssueClosedRightAfterCreation ==
    [][/\ (Issued /\ calls # <<>> /\ calls[Len(calls)].op = "CreateIssue"
                  /\ calls' = Append(calls, LastCall)) =>
             (LastCall.op = "EditIssue" /\ LastCall.pr = calls[Len(calls)].pr)
       /\ (Issued /\ LastCall.op = "EditIssue" /\ LastCall.outcome = "ok") =>
             \E k \in DOMAIN calls' :
                 calls'[k].op = "CreateCommitComment" /\ calls'[k].pr = LastCall.pr
       /\ (Issued /\ LastCall.outcome = "fail"
                  /\ LastCall.op \in {"CreateIssue", "CreateCommitComment", "EditIssue"}) =>
             pc' = "fatal"
       /\ pc' \in {"fatal", "doneRepo"} => OpenIssues(calls') = {}]_vars

\* C18: a second run of the pipeline over the same repository, with
\* overwrite enabled and the source unchanged, is not aborted and leaves the
\* destination as the first run left it: no repository, pull request, issue
\* or commit comment is added.
SecondRunChangesNothing ==
    [][repoIdx = 2 => (pc' \notin {"fatal", "panic"} /\ backends' = backends)]_vars

\* C19: between any two consecutive mutating calls to either backend a
\* pacing sleep occurs: a step issues a mutating call only when a sleep has
\* run since the mutating call before it.
SleepBetweenMutatingCalls ==
    [][(Issued /\ LastCall.op \in SourceMutating \cup DestMutating) => paced]_vars

LacksKey(r) ==
    \E k \in DOMAIN r.values : r.values[k].type = "pullrequest" /\ ~r.values[k].keys

\* C20: a record whose author mapping lacks display_name or whose source
\* mapping lacks branch.name is rejected when the PR list is decoded: the
\* run ends there as Fatal, and no record without its keys is ever in the
\* decoded list while a destination call or a push is issued.
MissingKeyFailsDecoding ==
    [][/\ (pc = "decodePrs" /\ LacksKey(response)) => pc' = "fatal"
       /\ (\E k \in DOMAIN prs : ~prs[k].HasKeys) =>
             ~(Issued /\ LastCall.op \in DestMutating \cup {"GetRepository", "GitPush"})]_vars

\* main.go:163-202, the toggle that governs a call
ToggleOf(op) ==
    CASE op \in {"ListUserPermissions", "ListGroupPermissions",
                 "SetUserPermissions", "SetGroupPermissions"} -> config.revokeOldPerms
      [] op \in {"MkdirTemp", "GitClone", "GitRemoteAdd", "RunProgram", "GitPush"} ->
             config.migrateRepoContents
      [] op \in SettingsOps -> config.migrateRepoSettings
      [] op = "CreatePullRequest" -> config.migrateOpenPrs
      [] op \in {"CreateIssue", "CreateCommitComment", "EditIssue"} -> config.migrateClosedPrs
      [] op = "ListPullRequests" -> config.migrateOpenPrs \/ config.migrateClosedPrs
      [] OTHER -> TRUE

\* main.go:163-202, the toggle that governs a stage of StageOf
StageEnabled(n) ==
    CASE n = 2 -> config.revokeOldPerms
      [] n \in {3, 6} -> config.migrateRepoContents
      [] n = 4 -> config.migrateOpenPrs \/ config.migrateClosedPrs
      [] n = 7 -> config.migrateRepoSettings
      [] n = 8 -> config.migrateOpenPrs
      [] n = 9 -> config.migrateClosedPrs
      [] OTHER -> TRUE

\* C21 as claimed: each optional stage is governed by its own toggle only: a
\* call of a stage is issued only when the toggle of that stage is set, a
\* run that goes on enters a stage exactly when its toggle is set, and a
\* repository that is done was cloned and pushed exactly when content
\* transfer is enabled.
StagesFollowOnlyTheirToggles ==
    [][/\ \A k \in DOMAIN calls' : ToggleOf(calls'[k].op)
       /\ (StageOf(pc) \in 1..9 /\ StageOf(pc') \in 2..10 /\ StageOf(pc') > StageOf(pc)) =>
             /\ StageEnabled(StageOf(pc'))
             /\ \A n \in (StageOf(pc) + 1)..(StageOf(pc') - 1) : ~StageEnabled(n)
       /\ pc' = "doneRepo" => (pushOk' <=> config.migrateRepoContents)
       /\ pc' = "doneRepo" => (repoFolder' # "" <=> config.migrateRepoContents)]_vars

\* C21 amended: each optional stage is governed by its own toggle only: a
\* call of a stage is issued only when the toggle of that stage is set (the
\* PR list is fetched only when one of the two PR toggles is), and a run
\* that goes on enters a stage exactly when its toggle is set: the stage it
\* moves to is enabled and every stage it passes over is disabled, whatever
\* the other toggles are; a repository that is done was cloned exactly when
\* content transfer is enabled, and was pushed exactly when content transfer
\* is enabled and the run is not a dry run.
StagesFollowTheirToggles ==
    [][/\ \A k \in DOMAIN calls' : ToggleOf(calls'[k].op)
       /\ (StageOf(pc) \in 1..9 /\ StageOf(pc') \in 2..10 /\ StageOf(pc') > StageOf(pc)) =>
             /\ StageEnabled(StageOf(pc'))
             /\ \A n \in (StageOf(pc) + 1)..(StageOf(pc') - 1) : ~StageEnabled(n)
       /\ pc' = "doneRepo" =>
             (pushOk' <=> (config.migrateRepoContents /\ ~config.dryRun))
       /\ pc' = "doneRepo" => (repoFolder' # "" <=> config.migrateRepoContents)]_vars

\* a repository is done with revocation, settings and the merged-PR pass
\* enabled and content transfer and the open-PR pass disabled: nothing was
\* cloned or pushed and the merged pass ran
DisabledStagesPassedOver ==
    /\ pc = "doneRepo" /\ ~config.dryRun
    /\ config.revokeOldPerms /\ ~config.migrateRepoContents
    /\ config.migrateRepoSettings /\ ~config.migrateOpenPrs /\ config.migrateClosedPrs
    /\ repoFolder = "" /\ ~pushOk
    /\ HasState(prs, "OPEN")
    /\ calls # <<>> /\ calls[Len(calls)].op = "EditIssue"

DestinationOps == DestMutating \cup {"GetRepository", "GitRemoteAdd", "GitPush"}

\* the account a destination call addresses: an empty organization on
\* create-repository stands for the account of the token, taken to be
\* GITHUB_USER
AddressedOwner(c) == IF c.owner = "" THEN config.ghUser ELSE c.owner

\* C22: within the pipeline of one repository every destination operation
\* addresses the same repository: create-repository, the existence reads,
\* the remote of the mirror push and the settings, topic, pull-request and
\* issue calls all use the owner of the configuration and the slug the
\* source returned, for organization-owned and user-owned destinations.
SameDestinationAddress ==
    \A k \in DOMAIN calls :
        calls[k].op \in DestinationOps =>
            /\ AddressedOwner(calls[k]) = config.ghOwner
            /\ calls[k].name = bbRepo.Slug

====
